---- MODULE Spec2Model ----
(***************************************************************************)
(* Model of create_trading_prompt (src/bot/prompts_idss.py, lines 380-659) *)
(* and of its nested helpers fmt, describe_freshness and                   *)
(* summarize_news_sentiment.                                               *)
(*                                                                         *)
(* Python values are records [tag, s, n]: tag is "absent" (the key is not  *)
(* in the dict), "none" (None), "str" (s is the string, a sequence of      *)
(* characters) or "num" (n is the number).  A character is a record        *)
(* [c, v]: an ordinary piece of text c, or the token "<dt>" standing for   *)
(* a well-formed ISO-8601 date-time body (YYYY-MM-DDTHH:MM:SS) whose       *)
(* wall-clock reading is v seconds after datetime.min.                     *)
(* Prices, quantities and instants are whole numbers; sentiment            *)
(* confidences and scores are in hundredths.                               *)
(***************************************************************************)
EXTENDS Integers, Sequences, FiniteSets, TLC

VARIABLES
    clock,             \* the ambient wall clock, datetime.now(timezone.utc)
    now,               \* local `now` of create_trading_prompt (line 384)
    state,             \* argument `state`
    market_snapshots,  \* argument `market_snapshots`: coin -> snapshot
    cache,             \* the news_cache collaborator: entries per coin, last refresh
    prompt_lines,      \* local `prompt_lines`
    pc,                \* position of create_trading_prompt
    sym_i,             \* index of the `for symbol in config.SYMBOLS` loop
    pos_i,             \* index of the `for coin, pos in state["positions"].items()` loop
    run,               \* number of the current invocation
    prev_doc,          \* document returned by the previous invocation
    prev_now,          \* `now` of the previous invocation
    f_entry,           \* describe_freshness: argument `entry`
    f_result,          \* describe_freshness: returned value
    f_pc,              \* describe_freshness: position
    n_entries,         \* summarize_news_sentiment: argument `entries`
    n_i,               \* summarize_news_sentiment: index of `for entry in entries`
    n_acc,             \* summarize_news_sentiment: counts, weighted_scores, key_entry
    n_net_score,       \* summarize_news_sentiment: local `net_score`
    n_result,          \* summarize_news_sentiment: returned value
    n_pc               \* summarize_news_sentiment: position

composer_vars == <<clock, state, market_snapshots, cache, prompt_lines, pc,
                   sym_i, pos_i, run, prev_doc, prev_now>>
fresh_vars == <<f_entry, f_result, f_pc>>
news_vars == <<n_entries, n_i, n_acc, n_net_score, n_result, n_pc>>
vars == <<composer_vars, now, fresh_vars, news_vars>>

---------------------------------------------------------------------------
(* Bounds of the model.                                                    *)

\* datetime.min is instant 0 of the model; datetime.max is DtMax.
DtMax == 200000000
\* The instant the clock shows when the first invocation starts.
Now0 == 100000000
\* Longest list of news entries handed to summarize_news_sentiment.
MaxEntries == 3
\* Invocations of create_trading_prompt in one behaviour.
MaxRuns == 2
\* Times the ambient clock advances in one behaviour, a minute each time.
MaxTicks == 1

---------------------------------------------------------------------------
(* Python values.                                                          *)

Absent == [tag |-> "absent", s |-> <<>>, n |-> 0]
None == [tag |-> "none", s |-> <<>>, n |-> 0]
Raised == [tag |-> "raise", s |-> <<>>, n |-> 0]
Str(chars) == [tag |-> "str", s |-> chars, n |-> 0]
Num(k) == [tag |-> "num", s |-> <<>>, n |-> k]

Ch(c) == [c |-> c, v |-> 0]
Dt(t) == [c |-> "<dt>", v |-> t]
\* A string written as its pieces of text.
Lit(pieces) == Str([i \in 1..Len(pieces) |-> Ch(pieces[i])])

\* bool(v): None, "", 0 and an absent key's default are false.
Truthy(v) ==
    \/ v.tag = "str" /\ v.s /= <<>>
    \/ v.tag = "num" /\ v.n /= 0

\* dict.get(key): None when the key is missing.
Get(v) == IF v.tag = "absent" THEN None ELSE v

\* dict.get(key, default)
GetOr(v, default) == IF v.tag = "absent" THEN default ELSE v

\* a or b
Or(a, b) == IF Truthy(a) THEN a ELSE b

\* str(v) of a value that is a string or a number.
PyStr(v) == IF v.tag = "num" THEN Lit(<<ToString(v.n)>>) ELSE v

RECURSIVE Text(_)
\* The text of a sequence of characters, as one string.
Text(chars) ==
    IF chars = <<>> THEN ""
    ELSE (IF Head(chars).c = "<dt>"
            THEN "<dt " \o ToString(Head(chars).v) \o ">"
            ELSE Head(chars).c) \o Text(Tail(chars))

---------------------------------------------------------------------------
(* str.strip, str.replace.                                                 *)

IsSpace(ch) == ch.c \in {" ", "\n", "\t"}

RECURSIVE LStrip(_)
LStrip(chars) ==
    IF chars /= <<>> /\ IsSpace(Head(chars)) THEN LStrip(Tail(chars)) ELSE chars

RECURSIVE RStrip(_)
RStrip(chars) ==
    IF chars /= <<>> /\ IsSpace(chars[Len(chars)])
    THEN RStrip(SubSeq(chars, 1, Len(chars) - 1))
    ELSE chars

\* s.strip()
Strip(chars) == RStrip(LStrip(chars))

UtcOffsetChars == <<Ch("+"), Ch("0"), Ch("0"), Ch(":"), Ch("0"), Ch("0")>>

RECURSIVE ReplaceZ(_)
\* s.replace("Z", "+00:00")
ReplaceZ(chars) ==
    IF chars = <<>> THEN <<>>
    ELSE (IF Head(chars).c = "Z" THEN UtcOffsetChars ELSE <<Head(chars)>>)
         \o ReplaceZ(Tail(chars))

RECURSIVE ReplaceNewline(_)
\* s.replace("\n", " ")
ReplaceNewline(chars) ==
    IF chars = <<>> THEN <<>>
    ELSE <<(IF Head(chars).c = "\n" THEN Ch(" ") ELSE Head(chars))>>
         \o ReplaceNewline(Tail(chars))

---------------------------------------------------------------------------
(* datetime.fromisoformat, astimezone(timezone.utc).                       *)

Digits == {"0", "1", "2", "3", "4", "5", "6", "7", "8", "9"}

DigitVal(c) ==
    CASE c = "0" -> 0 [] c = "1" -> 1 [] c = "2" -> 2 [] c = "3" -> 3
      [] c = "4" -> 4 [] c = "5" -> 5 [] c = "6" -> 6 [] c = "7" -> 7
      [] c = "8" -> 8 [] c = "9" -> 9

\* The characters after the date-time body are a UTC offset +HH:MM or -HH:MM.
IsOffset(chars) ==
    /\ Len(chars) = 6
    /\ chars[1].c \in {"+", "-"}
    /\ chars[2].c \in Digits /\ chars[3].c \in Digits
    /\ chars[4].c = ":"
    /\ chars[5].c \in Digits /\ chars[6].c \in Digits
    /\ DigitVal(chars[2].c) * 10 + DigitVal(chars[3].c) < 24
    /\ DigitVal(chars[5].c) * 10 + DigitVal(chars[6].c) < 60

OffsetSeconds(chars) ==
    (IF chars[1].c = "-" THEN -1 ELSE 1)
    * ((DigitVal(chars[2].c) * 10 + DigitVal(chars[3].c)) * 3600
       + (DigitVal(chars[5].c) * 10 + DigitVal(chars[6].c)) * 60)

\* datetime.fromisoformat(s): ok = FALSE is ValueError; otherwise the
\* wall-clock reading, whether an offset was given (tzinfo), and the offset.
FromIsoFormat(chars) ==
    IF chars /= <<>> /\ Head(chars).c = "<dt>"
       /\ Head(chars).v >= 0 /\ Head(chars).v <= DtMax
       /\ (Len(chars) = 1 \/ IsOffset(Tail(chars)))
    THEN [ok |-> TRUE, wall |-> Head(chars).v, aware |-> Len(chars) > 1,
          offset |-> IF Len(chars) > 1 THEN OffsetSeconds(Tail(chars)) ELSE 0]
    ELSE [ok |-> FALSE, wall |-> 0, aware |-> FALSE, offset |-> 0]

\* Lines 438-440: a naive datetime is taken as UTC; astimezone(timezone.utc)
\* subtracts the offset and raises OverflowError outside datetime.min..max.
ToUtc(dt) ==
    LET utc == dt.wall - dt.offset
    IN  [ok |-> utc >= 0 /\ utc <= DtMax, instant |-> utc]

---------------------------------------------------------------------------
(* News entries: dicts with optional keys.                                 *)

EmptyEntry ==
    [published_at |-> Absent, date |-> Absent, raw_date |-> Absent,
     sentiment |-> Absent, sentiment_confidence |-> Absent,
     summary |-> Absent, snippet |-> Absent, title |-> Absent,
     source |-> Absent]

EntryKeys ==
    {"published_at", "date", "raw_date", "sentiment", "sentiment_confidence",
     "summary", "snippet", "title", "source"}

\* bool(entry): a dict is true when it has at least one key.
TruthyDict(entry) == \E k \in EntryKeys : entry[k].tag /= "absent"

---------------------------------------------------------------------------
(* describe_freshness, lines 421-471.                                      *)

\* f"{n} {unit}{'s' if n != 1 else ''} ago"
Ago(n, unit) ==
    Lit(<<ToString(n) \o " " \o unit \o (IF n /= 1 THEN "s" ELSE "") \o " ago">>)

\* Lines 446-471: the bucket of a non-negative number of seconds.
FreshnessPhrase(seconds) ==
    LET minutes == seconds \div 60
        hours == minutes \div 60
        days == hours \div 24
        weeks == days \div 7
        months == days \div 30
        years == days \div 365
    IN  IF seconds < 60 THEN Lit(<<"just now">>)
        ELSE IF minutes < 60 THEN Ago(minutes, "minute")
        ELSE IF hours < 24 THEN Ago(hours, "hour")
        ELSE IF days < 7 THEN Ago(days, "day")
        ELSE IF weeks < 5 THEN Ago(weeks, "week")
        ELSE IF months < 12 THEN Ago(months, "month")
        ELSE Ago(years, "year")

\* Lines 432-436 onward: the timestamp after strip(), from the Z replacement.
FreshnessOfCandidate(stripped, raw_candidate, t_now) ==
    LET iso_candidate == ReplaceZ(stripped)
        published_dt == FromIsoFormat(iso_candidate)
        utc == ToUtc(published_dt)
        diff == t_now - utc.instant
        seconds == IF diff < 0 THEN 0 ELSE diff
    IN  IF ~published_dt.ok THEN Or(raw_candidate, Str(iso_candidate))
        ELSE IF ~utc.ok THEN Raised
        ELSE FreshnessPhrase(seconds)

\* Mutation of describe_freshness: the clock is read again (datetime.now)
\* instead of the enclosing `now`.
describe_freshness_rereads_clock(entry, t_now) ==
    LET published_candidate == Or(Get(entry.published_at), Get(entry.date))
        raw_candidate == Get(entry.raw_date)
        iso_candidate == Strip(PyStr(published_candidate).s)
    IN  IF ~Truthy(published_candidate) THEN raw_candidate
        ELSE IF iso_candidate = <<>> THEN raw_candidate
        ELSE FreshnessOfCandidate(iso_candidate, raw_candidate, clock)

\* describe_freshness(entry), with the enclosing `now`: a string, None, or
\* Raised when an exception leaves the function.
describe_freshness(entry, t_now) ==
    LET published_candidate == Or(Get(entry.published_at), Get(entry.date))
        raw_candidate == Get(entry.raw_date)
        iso_candidate == Strip(PyStr(published_candidate).s)
    IN  IF ~Truthy(published_candidate) THEN raw_candidate
        ELSE IF iso_candidate = <<>> THEN raw_candidate
        ELSE FreshnessOfCandidate(iso_candidate, raw_candidate, t_now)

---------------------------------------------------------------------------
(* String helpers of summarize_news_sentiment.                             *)

\* str.lower() of the sentiment labels that occur.
LowerPiece(c) ==
    CASE c = "Positive" -> "positive"
      [] c = "POSITIVE" -> "positive"
      [] c = "NEGATIVE" -> "negative"
      [] c = "Neutral" -> "neutral"
      [] c = "Mixed" -> "mixed"
      [] OTHER -> c

\* str.upper() of the sentiment labels that occur.
UpperPiece(c) ==
    CASE c = "positive" -> "POSITIVE"
      [] c = "Positive" -> "POSITIVE"
      [] c = "negative" -> "NEGATIVE"
      [] c = "neutral" -> "NEUTRAL"
      [] c = "Neutral" -> "NEUTRAL"
      [] c = "mixed" -> "MIXED"
      [] c = "Mixed" -> "MIXED"
      [] c = "unknown" -> "UNKNOWN"
      [] OTHER -> c

Lower(chars) == [i \in 1..Len(chars) |-> [chars[i] EXCEPT !.c = LowerPiece(@)]]
Upper(chars) == [i \in 1..Len(chars) |-> [chars[i] EXCEPT !.c = UpperPiece(@)]]

\* Code point of the first character of a piece of text; a date-time body
\* starts with the digit of its millennium.
CodePoint(ch) ==
    CASE ch.c = "<dt>" -> 50
      [] ch.c = "\n" -> 10
      [] ch.c = " " -> 32
      [] ch.c = "+" -> 43
      [] ch.c = "-" -> 45
      [] ch.c \in Digits -> 48 + DigitVal(ch.c)
      [] ch.c = ":" -> 58
      [] ch.c = "Z" -> 90
      [] OTHER -> 120

\* Two date-time bodies have the same width, so they compare as their
\* wall-clock readings; other characters compare by code point.
CharLess(a, b) ==
    IF a.c = "<dt>" /\ b.c = "<dt>" THEN a.v < b.v
    ELSE CodePoint(a) < CodePoint(b)

RECURSIVE StrGreater(_, _)
\* a > b on Python strings: lexicographic, a proper prefix is smaller.
StrGreater(a, b) ==
    IF a = <<>> THEN FALSE
    ELSE IF b = <<>> THEN TRUE
    ELSE IF CharLess(Head(b), Head(a)) THEN TRUE
    ELSE IF CharLess(Head(a), Head(b)) THEN FALSE
    ELSE StrGreater(Tail(a), Tail(b))

RECURSIVE SumSeq(_)
SumSeq(xs) == IF xs = <<>> THEN 0 ELSE Head(xs) + SumSeq(Tail(xs))

TwoDigits(k) == IF k < 10 THEN "0" \o ToString(k) ELSE ToString(k)

\* f"{x:+.2f}" of x = num / den hundredths: rounded to the nearest
\* hundredth, a tie to the even one.
SignedFixed2(num, den) ==
    LET mag == IF num < 0 THEN -num ELSE num
        q == mag \div den
        r == mag % den
        rounded == IF 2 * r > den \/ (2 * r = den /\ q % 2 = 1) THEN q + 1 ELSE q
    IN  (IF num < 0 THEN "-" ELSE "+")
        \o ToString(rounded \div 100) \o "." \o TwoDigits(rounded % 100)

---------------------------------------------------------------------------
(* summarize_news_sentiment, lines 473-535.                                *)

\* Line 481, in hundredths.
sentiment_weights(sent) ==
    CASE sent = "positive" -> 100
      [] sent = "negative" -> -100
      [] sent = "neutral" -> 0

RecognizedLabels == {"positive", "negative", "neutral"}

\* Lines 482-484.
NewsAcc0 ==
    [counts |-> [positive |-> 0, negative |-> 0, neutral |-> 0, unknown |-> 0],
     weighted_scores |-> <<>>,
     key_entry |-> 0]

\* entry.get("published_at") or entry.get("date") or ""
TimestampOf(entry) ==
    Or(Or(Get(entry.published_at), Get(entry.date)), Str(<<>>))

\* Mutation of Tally: an entry without numeric confidence scores 0.
TallyConfidenceDefaultsToZero(acc, entry) ==
    LET sent == Text(Lower(Or(Get(entry.sentiment), Lit(<<"unknown">>)).s))
        confidence == Get(entry.sentiment_confidence)
    IN  IF sent \notin RecognizedLabels
        THEN [acc EXCEPT !.counts.unknown = @ + 1]
        ELSE [acc EXCEPT
                !.counts[sent] = @ + 1,
                !.weighted_scores =
                    Append(@, IF confidence.tag = "num"
                              THEN (sentiment_weights(sent) * confidence.n) \div 100
                              ELSE 0)]

\* Lines 487-496: the label's count and the entry's weighted score.
Tally(acc, entry) ==
    LET sent == Text(Lower(Or(Get(entry.sentiment), Lit(<<"unknown">>)).s))
        confidence == Get(entry.sentiment_confidence)
    IN  IF sent \notin RecognizedLabels
        THEN [acc EXCEPT !.counts.unknown = @ + 1]
        ELSE [acc EXCEPT
                !.counts[sent] = @ + 1,
                !.weighted_scores =
                    Append(@, IF confidence.tag = "num"
                              THEN (sentiment_weights(sent) * confidence.n) \div 100
                              ELSE sentiment_weights(sent))]

\* Mutation of SelectKey: the comparison is reversed, the older timestamp
\* string wins.
SelectKeyReversed(key_entry, entries, i) ==
    IF key_entry = 0 \/ ~TruthyDict(entries[key_entry]) THEN i
    ELSE LET ts_new == TimestampOf(entries[i])
             ts_old == TimestampOf(entries[key_entry])
         IN  IF Truthy(ts_new) /\ StrGreater(ts_old.s, ts_new.s) THEN i
             ELSE key_entry

\* Lines 498-505: key_entry after entry number i; key_entry is the index of
\* the dict it refers to, 0 for None.
SelectKey(key_entry, entries, i) ==
    IF key_entry = 0 \/ ~TruthyDict(entries[key_entry]) THEN i
    ELSE LET ts_new == TimestampOf(entries[i])
             ts_old == TimestampOf(entries[key_entry])
         IN  IF Truthy(ts_new) /\ StrGreater(ts_new.s, ts_old.s) THEN i
             ELSE key_entry

\* One iteration of `for entry in entries`, lines 486-505.
NewsStep(acc, entries, i) ==
    [Tally(acc, entries[i]) EXCEPT !.key_entry = SelectKey(acc.key_entry, entries, i)]

RECURSIVE NewsFold(_, _, _)
NewsFold(acc, entries, i) ==
    IF i > Len(entries) THEN acc
    ELSE NewsFold(NewsStep(acc, entries, i), entries, i + 1)

\* Line 507: fmean(weighted_scores) if weighted_scores else 0.0, as a fraction.
NetScore(weighted_scores) ==
    IF weighted_scores = <<>> THEN [num |-> 0, den |-> 1]
    ELSE [num |-> SumSeq(weighted_scores), den |-> Len(weighted_scores)]

\* Mutation of Bias: the thresholds are exclusive.
BiasExclusive(net_score) ==
    IF net_score.num > 20 * net_score.den THEN "Bullish tilt"
    ELSE IF net_score.num < -20 * net_score.den THEN "Bearish tilt"
    ELSE "Mixed/neutral bias"

\* Lines 508-513; 0.2 is 20 hundredths.
Bias(net_score) ==
    IF net_score.num >= 20 * net_score.den THEN "Bullish tilt"
    ELSE IF net_score.num <= -20 * net_score.den THEN "Bearish tilt"
    ELSE "Mixed/neutral bias"

\* Lines 515-518.
SummaryLine(acc) ==
    LET net_score == NetScore(acc.weighted_scores)
    IN  Bias(net_score) \o ": +" \o ToString(acc.counts.positive)
        \o " / -" \o ToString(acc.counts.negative)
        \o " / =" \o ToString(acc.counts.neutral)
        \o " (net score " \o SignedFixed2(net_score.num, net_score.den) \o ")."

\* entry.get("summary") or entry.get("snippet") or entry.get("title", "")
HeadlineOf(entry) ==
    Or(Or(Get(entry.summary), Get(entry.snippet)), GetOr(entry.title, Str(<<>>)))

\* Lines 521-531: the key line, given the headline and the freshness;
\* raised when .replace is called on a value that is no string, or
\* describe_freshness raises.
KeyLineText(key, key_summary, freshness) ==
    IF key_summary.tag /= "str" \/ freshness.tag = "raise"
    THEN [raised |-> TRUE, text |-> ""]
    ELSE [raised |-> FALSE,
          text |-> "Key headline ["
                   \o Text(Upper(Or(Get(key.sentiment), Lit(<<"unknown">>)).s))
                   \o "] " \o Text(Strip(ReplaceNewline(key_summary.s)))
                   \o (IF Truthy(freshness)
                       THEN " (published " \o Text(freshness.s) \o ")"
                       ELSE "")]

\* Lines 520-533: key_line; "" when key_entry is None or an empty dict.
KeyLine(entries, key_entry, t_now) ==
    IF key_entry /= 0 /\ TruthyDict(entries[key_entry])
    THEN KeyLineText(entries[key_entry], HeadlineOf(entries[key_entry]),
                     describe_freshness(entries[key_entry], t_now))
    ELSE [raised |-> FALSE, text |-> ""]

\* Line 535: the returned tuple, or the exception.
NewsTuple(acc, entries, key_line) ==
    [kind |-> IF key_line.raised THEN "raise" ELSE "tuple",
     summary_line |-> SummaryLine(acc),
     key_line |-> key_line.text,
     key_entry |-> IF acc.key_entry /= 0 /\ TruthyDict(entries[acc.key_entry])
                   THEN acc.key_entry ELSE 0]

\* Lines 507-535: what summarize_news_sentiment returns after the loop.
NewsFinish(acc, entries, t_now) ==
    NewsTuple(acc, entries, KeyLine(entries, acc.key_entry, t_now))

NewsNone == [kind |-> "none", summary_line |-> "", key_line |-> "", key_entry |-> 0]

\* summarize_news_sentiment(entries)
summarize_news_sentiment(entries, t_now) ==
    IF entries = <<>> THEN NewsNone
    ELSE NewsFinish(NewsFold(NewsAcc0, entries, 1), entries, t_now)

---------------------------------------------------------------------------
(* Collaborators: config and the shapes of the arguments.                  *)

\* config.SYMBOLS, in the configured order.
SYMBOLS == <<"TLKM.JK", "BBCA.JK", "ASII.JK">>

\* config.SYMBOL_TO_COIN[symbol]
SYMBOL_TO_COIN(symbol) ==
    CASE symbol = "TLKM.JK" -> "TLKM"
      [] symbol = "BBCA.JK" -> "BBCA"
      [] symbol = "ASII.JK" -> "ASII"

Coins == {SYMBOL_TO_COIN(SYMBOLS[i]) : i \in 1..Len(SYMBOLS)}

\* config.CHECK_INTERVAL, seconds.
CHECK_INTERVAL == 300

\* config.TRADING_FEE_RATE * 100, in thousandths of a percent.
TRADING_FEE_RATE == 150

\* A market snapshot: tag "absent" when market_snapshots has no such key,
\* "dict" otherwise; a key the dict lacks is Absent.
NoSnapshot ==
    [tag |-> "absent", price |-> Absent, ema20 |-> Absent, macd |-> Absent,
     rsi7 |-> Absent, intraday_series |-> Absent, long_term |-> Absent]

EmptySnapshot == [NoSnapshot EXCEPT !.tag = "dict"]

\* data["intraday_series"]: six series, oldest first.
IntradayDict(price) ==
    [tag |-> "dict",
     mid_prices |-> <<price - 2, price - 1, price>>,
     ema20 |-> <<price - 6, price - 5, price - 5>>,
     macd |-> <<-1, 0, 1>>,
     rsi7 |-> <<48, 52, 55>>,
     rsi14 |-> <<50, 51, 52>>,
     vwap |-> <<price - 3, price - 2, price - 1>>]

\* data["long_term"]: six optional numbers and three series, oldest first.
LongTermDict(price) ==
    [tag |-> "dict",
     ema20 |-> Num(price - 10), ema50 |-> Num(price - 30),
     atr3 |-> None, atr14 |-> Num(12),
     current_volume |-> Num(9000), average_volume |-> None,
     macd |-> <<-2, 2>>, rsi14 |-> <<45, 60>>, vwap |-> <<price - 15, price - 4>>]

FullSnapshot(price) ==
    [tag |-> "dict", price |-> Num(price), ema20 |-> Num(price - 5),
     macd |-> None, rsi7 |-> Num(55),
     intraday_series |-> IntradayDict(price),
     long_term |-> LongTermDict(price)]

\* bool(data) of `data = market_snapshots.get(coin)`: None and {} are false.
TruthySnapshot(data) ==
    /\ data.tag = "dict"
    /\ \E k \in {"price", "ema20", "macd", "rsi7", "intraday_series", "long_term"} :
          data[k].tag /= "absent"

---------------------------------------------------------------------------
(* fmt, json.dumps and the lines of the document.                          *)

RECURSIVE Zeros(_)
Zeros(k) == IF k = 0 THEN "" ELSE "0" \o Zeros(k - 1)

\* fmt(value, digits), lines 398-401, of None or a whole number.
fmt(value, digits) ==
    IF value.tag = "none" THEN "N/A"
    ELSE ToString(value.n) \o "." \o Zeros(digits)

RECURSIVE JoinInts(_)
JoinInts(xs) ==
    IF xs = <<>> THEN ""
    ELSE IF Len(xs) = 1 THEN ToString(Head(xs))
    ELSE ToString(Head(xs)) \o ", " \o JoinInts(Tail(xs))

\* json.dumps of a list of numbers.
JsonList(xs) == "[" \o JoinInts(xs) \o "]"

\* One element of prompt_lines: its text, the statement that appended it
\* (kind) and the coin it is about ("" when it is about none).
Line(kind, coin, text) == [kind |-> kind, coin |-> coin, text |-> text]

\* The document's arrows and dashes outside ASCII are written in ASCII.
Separator == "--------------------------------------------------------------------------------"

---------------------------------------------------------------------------
(* The market block of one symbol, lines 538-602.                          *)

\* Lines 546-566: the sixteen lines of the indicator block.
IndicatorLines(coin, data) ==
    LET intraday == data.intraday_series
        long_term == data.long_term
        minutes == ToString(CHECK_INTERVAL \div 60)
    IN  << Line("header", coin, coin \o " STOCK SNAPSHOT"),
           Line("indicators", coin,
                "- Price: " \o fmt(data.price, 3) \o ", EMA20: " \o fmt(data.ema20, 3)
                \o ", MACD: " \o fmt(data.macd, 3) \o ", RSI(7): " \o fmt(data.rsi7, 3)),
           Line("intraday", coin,
                "  Intraday series (" \o minutes \o "-minute, oldest -> latest):"),
           Line("intraday", coin, "    mid_prices: " \o JsonList(intraday.mid_prices)),
           Line("intraday", coin, "    ema20: " \o JsonList(intraday.ema20)),
           Line("intraday", coin, "    macd: " \o JsonList(intraday.macd)),
           Line("intraday", coin, "    rsi7: " \o JsonList(intraday.rsi7)),
           Line("intraday", coin, "    rsi14: " \o JsonList(intraday.rsi14)),
           Line("intraday", coin, "    vwap: " \o JsonList(intraday.vwap)),
           Line("long_term", coin, "  Longer-term context (1-hour timeframe):"),
           Line("long_term", coin,
                "    EMA20 vs EMA50: " \o fmt(long_term.ema20, 3) \o " / "
                \o fmt(long_term.ema50, 3)),
           Line("long_term", coin,
                "    ATR3 vs ATR14: " \o fmt(long_term.atr3, 3) \o " / "
                \o fmt(long_term.atr14, 3)),
           Line("long_term", coin,
                "    Volume (current/average): " \o fmt(long_term.current_volume, 3)
                \o " / " \o fmt(long_term.average_volume, 3)),
           Line("long_term", coin, "    MACD series: " \o JsonList(long_term.macd)),
           Line("long_term", coin, "    RSI14 series: " \o JsonList(long_term.rsi14)),
           Line("long_term", coin, "    VWAP series: " \o JsonList(long_term.vwap)),
           Line("separator", coin, Separator) >>

\* data[key] raises KeyError for a key the snapshot lacks (lines 543-549).
SnapshotKeyError(data) ==
    \E k \in {"price", "ema20", "macd", "rsi7", "intraday_series", "long_term"} :
        data[k].tag = "absent"

\* f"{confidence:.2f}" of a confidence in hundredths.
Fixed2(c) ==
    (IF c < 0 THEN "-" ELSE "")
    \o ToString((IF c < 0 THEN -c ELSE c) \div 100) \o "."
    \o TwoDigits((IF c < 0 THEN -c ELSE c) % 100)

\* f"{source}" of entry.get("source")
SourceText(entry) ==
    LET source == Get(entry.source)
    IN  IF source.tag = "none" THEN "None" ELSE Text(PyStr(source).s)

\* Lines 589-600: the text of the line, given the headline and the freshness.
NewsItemText(coin, entry, summary, freshness) ==
    IF summary.tag /= "str" \/ freshness.tag = "raise"
    THEN Line("raise", coin, "")
    ELSE Line("news_item", coin,
              "    - ["
              \o Text(Upper(Or(Get(entry.sentiment), Lit(<<"unknown">>)).s))
              \o (IF Get(entry.sentiment_confidence).tag = "num"
                  THEN " (confidence " \o Fixed2(entry.sentiment_confidence.n) \o ")"
                  ELSE "")
              \o "] " \o Text(Strip(ReplaceNewline(summary.s))) \o " - "
              \o SourceText(entry)
              \o (IF Truthy(freshness)
                  THEN " (published " \o Text(freshness.s) \o ")"
                  ELSE ""))

\* Lines 583-600: the line of one remaining headline; a line of kind "raise"
\* when .replace is called on a value that is no string, or
\* describe_freshness raises.
NewsItemLine(coin, entry, t_now) ==
    NewsItemText(coin, entry, HeadlineOf(entry), describe_freshness(entry, t_now))

RECURSIVE RemainingFrom(_, _, _)
\* Lines 580-582: the indices of the entries other than the key entry
\* (`entry is key_entry_for_summary`), in list order, from index i on.
RemainingFrom(i, len, key_entry) ==
    IF i > len THEN <<>>
    ELSE (IF key_entry /= 0 /\ i = key_entry THEN <<>> ELSE <<i>>)
         \o RemainingFrom(i + 1, len, key_entry)

\* Lines 574-579: the header, the summary line and the key line.
NewsHeadLines(coin, sentiment_summary) ==
    IF sentiment_summary.kind = "raise" THEN <<Line("raise", coin, "")>>
    ELSE <<Line("news_header", coin, "  Recent news sentiment:"),
           Line("news_summary", coin, "    - " \o sentiment_summary.summary_line)>>
         \o (IF sentiment_summary.key_line /= ""
             THEN <<Line("news_key", coin, "    - " \o sentiment_summary.key_line)>>
             ELSE <<>>)

\* Lines 580-600: the lines of the entries whose indices are in rest.
NewsRestLines(coin, news_entries, rest, t_now) ==
    [j \in 1..Len(rest) |-> NewsItemLine(coin, news_entries[rest[j]], t_now)]

\* Lines 572-600, given what summarize_news_sentiment returned.
NewsLinesAfter(coin, news_entries, sentiment_summary, t_now) ==
    NewsHeadLines(coin, sentiment_summary)
    \o NewsRestLines(coin, news_entries,
                     RemainingFrom(1, Len(news_entries), sentiment_summary.key_entry),
                     t_now)

\* Lines 568-600: the news lines of a symbol; none without entries.
NewsLines(coin, news_entries, t_now) ==
    IF news_entries = <<>> THEN <<>>
    ELSE NewsLinesAfter(coin, news_entries,
                        summarize_news_sentiment(news_entries, t_now), t_now)

\* An exception left the statements that wrote these lines.
HasRaise(lines) == \E j \in 1..Len(lines) : lines[j].kind = "raise"

\* Mutation of SymbolBlock: the closing separator is written only when the
\* symbol has news (line 602 indented under `if news_entries:`).
SymbolBlockSeparatorWithNews(coin, data, news_entries, t_now) ==
    IF SnapshotKeyError(data) THEN <<Line("raise", coin, "")>>
    ELSE IndicatorLines(coin, data) \o NewsLines(coin, news_entries, t_now)
         \o (IF news_entries /= <<>> THEN <<Line("separator", coin, Separator)>> ELSE <<>>)

\* One iteration of `for symbol in config.SYMBOLS` for a symbol that has a
\* snapshot, lines 543-602; a line of kind "raise" where an exception left.
SymbolBlock(coin, data, news_entries, t_now) ==
    IF SnapshotKeyError(data) THEN <<Line("raise", coin, "")>>
    ELSE IndicatorLines(coin, data) \o NewsLines(coin, news_entries, t_now)
         \o <<Line("separator", coin, Separator)>>

---------------------------------------------------------------------------
(* Preamble, lines 384-419.                                                *)

\* Lines 392-396 for a parsed refresh time: Raised when astimezone
\* overflows.  A time without offset is read in the host's zone, taken as UTC.
RefreshOfParsed(news_refresh_iso, refresh_dt) ==
    IF ~refresh_dt.ok THEN news_refresh_iso
    ELSE IF ~ToUtc(refresh_dt).ok THEN Raised
    ELSE Str(<<Dt(ToUtc(refresh_dt).instant), Ch(" UTC")>>)

\* Lines 387-396: news_refresh_str.
RefreshText(news_refresh_iso) ==
    IF ~Truthy(news_refresh_iso) THEN None
    ELSE RefreshOfParsed(news_refresh_iso, FromIsoFormat(ReplaceZ(news_refresh_iso.s)))

\* Mutation of Preamble: the ordering disclaimer is written first.
PreambleDisclaimerFirst(st, t_now, news_refresh_str) ==
    << Line("disclaimer", "",
            "ALL PRICE OR SIGNAL SERIES BELOW ARE ORDERED OLDEST -> NEWEST."),
       Line("elapsed", "",
            "It has been " \o ToString((t_now - st.start_time) \div 60)
            \o " minutes since you started trading. "),
       Line("time", "",
            "The current time is " \o Text(<<Dt(t_now)>> \o UtcOffsetChars)
            \o " and you've been invoked " \o ToString(st.invocation_count)
            \o " times. "),
       Line("title", "", "CURRENT MARKET STATE FOR ALL COINS") >>

\* Lines 408-419: the initial prompt_lines and the refresh line.
Preamble(st, t_now, news_refresh_str) ==
    LET minutes_running == (t_now - st.start_time) \div 60
    IN  << Line("elapsed", "",
                "It has been " \o ToString(minutes_running)
                \o " minutes since you started trading. "),
           Line("time", "",
                "The current time is " \o Text(<<Dt(t_now)>> \o UtcOffsetChars)
                \o " and you've been invoked " \o ToString(st.invocation_count)
                \o " times. "),
           Line("intro", "",
                "Below is a variety of state data, price data, and predictive signals so you can discover alpha."),
           Line("disclaimer", "",
                "ALL PRICE OR SIGNAL SERIES BELOW ARE ORDERED OLDEST -> NEWEST."),
           Line("timeframe", "",
                "Timeframe note: Intraday series use " \o ToString(CHECK_INTERVAL \div 60)
                \o "-minute intervals unless a different interval is explicitly mentioned."),
           Line("rule", "", Separator),
           Line("title", "", "CURRENT MARKET STATE FOR ALL COINS") >>
        \o (IF Truthy(news_refresh_str)
            THEN <<Line("refresh", "",
                        "Latest news cache refresh: " \o Text(news_refresh_str.s))>>
            ELSE <<>>)

---------------------------------------------------------------------------
(* Account and position block, lines 604-657.                              *)

\* f"{config.TRADING_FEE_RATE * 100:.3f}"
FeeRateText ==
    ToString(TRADING_FEE_RATE \div 1000) \o "."
    \o (IF TRADING_FEE_RATE % 1000 < 100 THEN "0" ELSE "")
    \o TwoDigits(TRADING_FEE_RATE % 1000)

\* Lines 604-618.
AccountLines(st) ==
    << Line("account_title", "", "## HERE IS YOUR ACCOUNT INFORMATION & PERFORMANCE"),
       Line("account", "", "**Performance Metrics:**"),
       Line("account", "", "- Total Return (%): " \o fmt(st.total_return_pct, 2)),
       Line("account", "", "- Sharpe Ratio: " \o fmt(st.sharpe_ratio, 2)),
       Line("account", "", "**Account Status:**"),
       Line("account", "", "- Available Cash: " \o fmt(st.total_balance, 2)),
       Line("account", "", "- Unrealized PnL: " \o fmt(st.net_unrealized_pnl, 2)),
       Line("account", "", "- Current Account Value: " \o fmt(st.total_equity, 2)),
       Line("account", "",
            "- Total Fees Paid (lifetime): " \o fmt(Get(st.total_fees_paid), 2)),
       Line("account", "", "- Fee Rate Applied (per side): " \o FeeRateText \o "%"),
       Line("account", "", "Open positions and their performance details:") >>

\* Lines 624-626: market_snapshots.get(coin, {}).get("price", pos["entry_price"])
CurrentPrice(snapshots, pos) ==
    LET data == IF snapshots[pos.coin].tag = "absent" THEN EmptySnapshot
                ELSE snapshots[pos.coin]
    IN  GetOr(data.price, Num(pos.entry_price))

\* Lines 627-631.
UnrealizedPnl(pos, current_price) ==
    IF pos.side = "long"
    THEN (current_price - pos.entry_price) * pos.quantity
    ELSE (pos.entry_price - current_price) * pos.quantity

\* Lines 633-651: the line of one position, given its current price.
PositionLine(pos, current_price) ==
    Line("position", pos.coin,
         pos.coin \o " position data: {\"symbol\": \"" \o pos.coin
         \o "\", \"side\": \"" \o pos.side
         \o "\", \"quantity\": " \o ToString(pos.quantity)
         \o ", \"entry_price\": " \o ToString(pos.entry_price)
         \o ", \"current_price\": " \o ToString(current_price)
         \o ", \"unrealized_pnl\": " \o ToString(UnrealizedPnl(pos, current_price))
         \o ", \"leverage\": 1, \"exit_plan\": {\"profit_target\": "
         \o ToString(pos.profit_target)
         \o ", \"stop_loss\": " \o ToString(pos.stop_loss)
         \o ", \"invalidation_condition\": \"" \o pos.invalidation_condition
         \o "\"}, \"confidence\": " \o Fixed2(pos.confidence)
         \o ", \"risk_idr\": " \o ToString(GetOr(pos.risk_idr, GetOr(pos.risk_usd, Num(0))).n)
         \o ", \"notional_idr\": " \o ToString(pos.quantity * current_price)
         \o ", \"fees_paid\": " \o ToString(GetOr(pos.fees_paid, Num(0)).n) \o "}")

\* Lines 627-651 for a current price: a line of kind "raise" when the
\* arithmetic meets a price that is no number.
PositionLineFor(pos, current_price) ==
    IF current_price.tag /= "num" THEN Line("raise", pos.coin, "")
    ELSE PositionLine(pos, current_price.n)

\* One iteration of `for coin, pos in state["positions"].items()`.
PositionStep(snapshots, pos) == PositionLineFor(pos, CurrentPrice(snapshots, pos))

\* Lines 653-657.
ClosingLine ==
    Line("closing", "",
         "Based on the above data, provide your trading decision in the required JSON format.")

---------------------------------------------------------------------------
(* The inputs the model ranges over.                                       *)

Days(k) == k * 86400

PlusSeven == <<Ch("+"), Ch("0"), Ch("7"), Ch(":"), Ch("0"), Ch("0")>>
MinusFive == <<Ch("-"), Ch("0"), Ch("5"), Ch(":"), Ch("0"), Ch("0")>>

\* Ages of a publication in seconds, around every threshold of the buckets;
\* a negative age is a publication in the future.
FreshDeltas ==
    {-100, 0, 30, 59, 60, 90, 119, 120, 3599, 3600, 7199, 7200,
     Days(1) - 1, Days(1), 90000, Days(2), Days(7) - 1, Days(7), Days(8),
     Days(14), Days(35) - 1, Days(35), Days(40), Days(60) - 1, Days(60),
     Days(360) - 1, Days(360), Days(364), Days(365), Days(400),
     Days(730) - 1, Days(730)}

\* ISO-8601 spellings of the instant t.
IsoSpellings(t) ==
    { <<Dt(t)>>,
      <<Dt(t), Ch("Z")>>,
      <<Dt(t + 7 * 3600)>> \o PlusSeven,
      <<Dt(t - 5 * 3600)>> \o MinusFive,
      <<Ch(" "), Dt(t), Ch("Z"), Ch("\n")>> }

\* Timestamps that fromisoformat rejects, and values that are no timestamp.
Unparsable ==
    { Lit(<<"x">>), Lit(<<"Z", "Z">>), Lit(<<" ", "x", "Z", " ">>),
      Str(<<Dt(Now0 - 90), Ch("Z"), Ch("Z")>>),
      Str(<<Dt(Now0 - 90), Ch(" "), Ch("x")>>),
      Lit(<<" ">>), Str(<<>>), None, Absent, Num(5) }

\* Timestamps that parse to an instant outside datetime.min .. datetime.max.
Extreme == { Str(<<Dt(0)>> \o PlusSeven), Str(<<Dt(DtMax)>> \o MinusFive) }

RawDates == { Absent, None, Str(<<>>), Lit(<<" 3 days ago">>) }

FreshEntries ==
    { [EmptyEntry EXCEPT !.published_at = Str(ts)] :
        ts \in UNION { IsoSpellings(Now0 - d) : d \in FreshDeltas } }
    \cup { [EmptyEntry EXCEPT !.published_at = p, !.date = Str(<<Dt(Now0 - d), Ch("Z")>>)] :
             p \in {None, Str(<<>>)}, d \in {30, 90000} }
    \cup { [EmptyEntry EXCEPT !.published_at = p, !.raw_date = r] :
             p \in Unparsable \cup Extreme, r \in RawDates }

\* News entries for summarize_news_sentiment and for the cache.  Scores are
\* exact fractions here and IEEE-754 doubles in the code; the confidences
\* are such that both give the same bias and the same two decimals on every
\* list of these entries that the model ranges over.
Headline(sentiment, confidence, published_at, title) ==
    [EmptyEntry EXCEPT !.sentiment = sentiment, !.sentiment_confidence = confidence,
                       !.published_at = published_at, !.title = title,
                       !.source = Lit(<<"wire">>)]

EPositive80 ==
    Headline(Lit(<<"positive">>), Num(80), Str(<<Dt(Now0 - 90), Ch("Z")>>), Lit(<<"up">>))
ENegative20 ==
    [Headline(Lit(<<"negative">>), Num(20), Absent, Lit(<<"down">>))
        EXCEPT !.date = Str(<<Dt(Now0 - 3600)>>)]
ENeutral ==
    [Headline(Lit(<<"neutral">>), Absent, Absent, Absent)
        EXCEPT !.summary = Lit(<<" flat", "\n", "day ">>), !.raw_date = Lit(<<"today">>)]
EPositiveCaps ==
    Headline(Lit(<<"Positive">>), Num(48), Str(<<Dt(Now0 - 30), Ch("Z")>>), Lit(<<"beat">>))
ENegativeCaps ==
    Headline(Lit(<<"NEGATIVE">>), Lit(<<"high">>), Str(<<Dt(Now0 - Days(8))>> \o PlusSeven),
             Lit(<<"miss">>))
EUnknown ==
    [Headline(Lit(<<"mixed">>), Num(80), Absent, Lit(<<"rumour">>)) EXCEPT !.source = Absent]
ENoLabel ==
    [EmptyEntry EXCEPT !.snippet = Lit(<<"note">>)]
ETitleNone ==
    Headline(None, Absent, Lit(<<"x", "Z">>), None)
EExtreme ==
    Headline(Lit(<<"neutral">>), Absent, Str(<<Dt(0)>> \o PlusSeven), Lit(<<"old">>))
\* Published a minute ago, written in the zone seven hours ahead of UTC.
EOffsetAhead ==
    Headline(Lit(<<"mixed">>), Absent, Str(<<Dt(Now0 - 60 + 7 * 3600)>> \o PlusSeven),
             Lit(<<"ahead">>))

NewsPool ==
    { EPositive80, ENegative20, ENeutral, EPositiveCaps, ENegativeCaps, EUnknown,
      ENoLabel, ETitleNone, EExtreme, EOffsetAhead, EmptyEntry }

RECURSIVE ListsUpTo(_, _)
\* The lists of at most k elements of S.
ListsUpTo(S, k) ==
    IF k = 0 THEN {<<>>}
    ELSE LET shorter == ListsUpTo(S, k - 1)
         IN  shorter \cup { Append(l, e) : l \in {x \in shorter : Len(x) = k - 1}, e \in S }

\* An open position; quantity and entry price are always there.
Position(coin, side, quantity, entry_price) ==
    [coin |-> coin, side |-> side, quantity |-> quantity, entry_price |-> entry_price,
     profit_target |-> entry_price + 100, stop_loss |-> entry_price - 50,
     invalidation_condition |-> "close below support", confidence |-> 70,
     risk_idr |-> Absent, risk_usd |-> Num(25), fees_paid |-> Absent]

\* state["positions"], in the mapping's order.
PositionLists ==
    { <<>>,
      <<Position("TLKM", "long", 10, 1000)>>,
      <<Position("TLKM", "short", 10, 1000)>>,
      <<Position("BBCA", "short", 3, 9100), Position("TLKM", "long", 10, 1000)>> }

States ==
    { [start_time |-> Now0 - 7230, invocation_count |-> 12,
       total_return_pct |-> Num(3), sharpe_ratio |-> None,
       total_balance |-> Num(50000), net_unrealized_pnl |-> Num(-120),
       total_equity |-> Num(103000), total_fees_paid |-> Absent,
       positions |-> ps] : ps \in PositionLists }

SnapshotsOf(coin) ==
    CASE coin = "TLKM" ->
            { NoSnapshot, EmptySnapshot, FullSnapshot(1050),
              [FullSnapshot(1050) EXCEPT !.price = None],
              [FullSnapshot(1050) EXCEPT !.intraday_series = Absent] }
      [] coin = "BBCA" -> { NoSnapshot, FullSnapshot(9000) }
      [] coin = "ASII" -> { NoSnapshot, FullSnapshot(5000) }

\* news_cache.get_cached_news(coin, limit=5)
CachedNewsOf(coin) ==
    CASE coin = "TLKM" ->
            { <<>>, <<EPositive80, ENegative20, ENeutral>>, <<ETitleNone>>,
              <<EmptyEntry, EUnknown>>, <<EmptyEntry>> }
      [] coin = "BBCA" -> { <<>>, <<ENegativeCaps, EExtreme>> }
      [] coin = "ASII" -> { <<ENoLabel, EPositiveCaps>> }

\* news_cache.get_last_refresh_time()
RefreshTimes == { None, Str(<<Dt(Now0 - 600), Ch("Z")>>), Lit(<<"soon">>) }

---------------------------------------------------------------------------
(* Initial states.                                                         *)

IdleEntry == EmptyEntry

FreshIdle ==
    /\ f_entry = IdleEntry
    /\ f_result = None
    /\ f_pc = "idle"

NewsIdle ==
    /\ n_entries = <<>>
    /\ n_i = 0
    /\ n_acc = NewsAcc0
    /\ n_net_score = NetScore(<<>>)
    /\ n_result = NewsNone
    /\ n_pc = "idle"

ComposerIdle ==
    /\ clock = Now0
    /\ state \in { st \in States : st.positions = <<>> }
    /\ market_snapshots = [c \in Coins |-> NoSnapshot]
    /\ cache = [news |-> [c \in Coins |-> <<>>], last_refresh |-> None]
    /\ prompt_lines = <<>>
    /\ pc = "idle"
    /\ sym_i = 0
    /\ pos_i = 0
    /\ run = 0
    /\ prev_doc = <<>>
    /\ prev_now = 0

\* create_trading_prompt is about to be called for the first time.
Init ==
    /\ clock = Now0
    /\ now = 0
    /\ state \in States
    /\ market_snapshots \in [Coins -> UNION {SnapshotsOf(c) : c \in Coins}]
    /\ \A c \in Coins : market_snapshots[c] \in SnapshotsOf(c)
    /\ \E news \in [Coins -> UNION {CachedNewsOf(c) : c \in Coins}] :
          /\ \A c \in Coins : news[c] \in CachedNewsOf(c)
          /\ \E r \in RefreshTimes : cache = [news |-> news, last_refresh |-> r]
    /\ prompt_lines = <<>>
    /\ pc = "start"
    /\ sym_i = 0
    /\ pos_i = 0
    /\ run = 1
    /\ prev_doc = <<>>
    /\ prev_now = 0
    /\ FreshIdle
    /\ NewsIdle

\* describe_freshness is about to be called with one entry.
InitFresh ==
    /\ ComposerIdle
    /\ now = Now0
    /\ f_entry \in FreshEntries
    /\ f_result = None
    /\ f_pc = "call"
    /\ NewsIdle

\* summarize_news_sentiment is about to be called with one list.
InitNews ==
    /\ ComposerIdle
    /\ now = Now0
    /\ FreshIdle
    /\ n_entries \in ListsUpTo(NewsPool, MaxEntries)
    /\ n_i = 1
    /\ n_acc = NewsAcc0
    /\ n_net_score = NetScore(<<>>)
    /\ n_result = NewsNone
    /\ n_pc = "call"

---------------------------------------------------------------------------
(* create_trading_prompt, step by step.                                    *)

\* The clock advances by a minute, before the function reads it or while
\* the symbols are rendered (nothing reads the clock after that).
Tick ==
    /\ clock < Now0 + MaxTicks * 60
    /\ pc \in {"start", "symbols"}
    /\ clock' = clock + 60
    /\ UNCHANGED <<now, state, market_snapshots, cache, prompt_lines, pc, sym_i,
                   pos_i, run, prev_doc, prev_now, fresh_vars, news_vars>>

\* Lines 384-419: the clock is read, the preamble is written.
Begin ==
    /\ pc = "start"
    /\ now' = clock
    /\ \E news_refresh_str \in {RefreshText(cache.last_refresh)} :
          IF news_refresh_str.tag = "raise"
          THEN /\ pc' = "raised"
               /\ UNCHANGED <<prompt_lines, sym_i>>
          ELSE /\ prompt_lines' = Preamble(state, clock, news_refresh_str)
               /\ sym_i' = 1
               /\ pc' = "symbols"
    /\ UNCHANGED <<clock, state, market_snapshots, cache, pos_i, run, prev_doc,
                   prev_now, fresh_vars, news_vars>>

\* Mutation of SymbolAt: the loop runs over sorted(config.SYMBOLS).
SymbolAtSorted(i) == <<"ASII.JK", "BBCA.JK", "TLKM.JK">>[i]

\* Line 537: the symbol of iteration i.
SymbolAt(i) == SYMBOLS[i]

\* Lines 538-541: a symbol without snapshot is passed over.
SkipSymbol ==
    /\ pc = "symbols"
    /\ sym_i <= Len(SYMBOLS)
    /\ ~TruthySnapshot(market_snapshots[SYMBOL_TO_COIN(SymbolAt(sym_i))])
    /\ sym_i' = sym_i + 1
    /\ UNCHANGED <<clock, now, state, market_snapshots, cache, prompt_lines, pc,
                   pos_i, run, prev_doc, prev_now, fresh_vars, news_vars>>

\* Lines 538-602: the block of a symbol with a snapshot.
RenderSymbol ==
    /\ pc = "symbols"
    /\ sym_i <= Len(SYMBOLS)
    /\ \E coin \in {SYMBOL_TO_COIN(SymbolAt(sym_i))} :
          /\ TruthySnapshot(market_snapshots[coin])
          /\ \E block \in {SymbolBlock(coin, market_snapshots[coin], cache.news[coin], now)} :
                IF HasRaise(block)
                THEN /\ pc' = "raised"
                     /\ UNCHANGED <<prompt_lines, sym_i>>
                ELSE /\ prompt_lines' = prompt_lines \o block
                     /\ sym_i' = sym_i + 1
                     /\ pc' = pc
    /\ UNCHANGED <<clock, now, state, market_snapshots, cache, pos_i, run,
                   prev_doc, prev_now, fresh_vars, news_vars>>

\* Lines 604-618: after the last symbol, the account lines.
RenderAccount ==
    /\ pc = "symbols"
    /\ sym_i > Len(SYMBOLS)
    /\ prompt_lines' = prompt_lines \o AccountLines(state)
    /\ pos_i' = 1
    /\ pc' = "positions"
    /\ UNCHANGED <<clock, now, state, market_snapshots, cache, sym_i, run,
                   prev_doc, prev_now, fresh_vars, news_vars>>

\* Mutation of NoPositions: without positions nothing is written.
NoPositionsSilent ==
    /\ pc = "positions"
    /\ Len(state.positions) = 0
    /\ pc' = "closing"
    /\ UNCHANGED <<clock, now, state, market_snapshots, cache, prompt_lines, sym_i, pos_i,
                   run, prev_doc, prev_now, fresh_vars, news_vars>>

\* Lines 620-621.
NoPositions ==
    /\ pc = "positions"
    /\ Len(state.positions) = 0
    /\ prompt_lines' = Append(prompt_lines, Line("no_positions", "", "No open positions yet."))
    /\ pc' = "closing"
    /\ UNCHANGED <<clock, now, state, market_snapshots, cache, sym_i, pos_i, run,
                   prev_doc, prev_now, fresh_vars, news_vars>>

\* Lines 623-651: one position.
RenderPosition ==
    /\ pc = "positions"
    /\ pos_i <= Len(state.positions)
    /\ \E line \in {PositionStep(market_snapshots, state.positions[pos_i])} :
          IF line.kind = "raise"
          THEN /\ pc' = "raised"
               /\ UNCHANGED <<prompt_lines, pos_i>>
          ELSE /\ prompt_lines' = Append(prompt_lines, line)
               /\ pos_i' = pos_i + 1
               /\ pc' = IF pos_i = Len(state.positions) THEN "closing" ELSE pc
    /\ UNCHANGED <<clock, now, state, market_snapshots, cache, sym_i, run,
                   prev_doc, prev_now, fresh_vars, news_vars>>

\* Lines 653-659: the closing line; the document is returned.
Close ==
    /\ pc = "closing"
    /\ prompt_lines' = Append(prompt_lines, ClosingLine)
    /\ pc' = "done"
    /\ UNCHANGED <<clock, now, state, market_snapshots, cache, sym_i, pos_i, run,
                   prev_doc, prev_now, fresh_vars, news_vars>>

\* The caller calls create_trading_prompt again with the same arguments.
Reinvoke ==
    /\ pc = "done"
    /\ run < MaxRuns
    /\ run' = run + 1
    /\ prev_doc' = prompt_lines
    /\ prev_now' = now
    /\ prompt_lines' = <<>>
    /\ sym_i' = 0
    /\ pos_i' = 0
    /\ pc' = "start"
    /\ UNCHANGED <<clock, now, state, market_snapshots, cache, fresh_vars, news_vars>>

Next ==
    \/ Tick
    \/ Begin
    \/ SkipSymbol
    \/ RenderSymbol
    \/ RenderAccount
    \/ NoPositions
    \/ RenderPosition
    \/ Close
    \/ Reinvoke

Spec == Init /\ [][Next]_vars

---------------------------------------------------------------------------
(* describe_freshness and summarize_news_sentiment on their own.           *)

\* describe_freshness(entry) is called and returns.
DescribeFreshness ==
    /\ f_pc = "call"
    /\ f_result' = describe_freshness(f_entry, now)
    /\ f_pc' = "returned"
    /\ UNCHANGED <<composer_vars, now, f_entry, news_vars>>

NextFresh == DescribeFreshness

SpecFresh == InitFresh /\ [][NextFresh]_vars

\* Lines 478-479: nothing to summarize.
NewsEmpty ==
    /\ n_pc = "call"
    /\ n_entries = <<>>
    /\ n_result' = NewsNone
    /\ n_pc' = "returned"
    /\ UNCHANGED <<composer_vars, now, fresh_vars, n_entries, n_i, n_acc, n_net_score>>

\* Lines 481-484: the loop is entered.
NewsEnter ==
    /\ n_pc = "call"
    /\ n_entries /= <<>>
    /\ n_pc' = "loop"
    /\ UNCHANGED <<composer_vars, now, fresh_vars, n_entries, n_i, n_acc, n_net_score, n_result>>

\* Lines 486-505: one entry.
NewsLoop ==
    /\ n_pc = "loop"
    /\ n_i <= Len(n_entries)
    /\ n_acc' = NewsStep(n_acc, n_entries, n_i)
    /\ n_i' = n_i + 1
    /\ UNCHANGED <<composer_vars, now, fresh_vars, n_entries, n_net_score, n_result, n_pc>>

\* Lines 507-535: the summary, the key line; the function returns.
NewsReturn ==
    /\ n_pc = "loop"
    /\ n_i > Len(n_entries)
    /\ n_net_score' = NetScore(n_acc.weighted_scores)
    /\ n_result' = NewsFinish(n_acc, n_entries, now)
    /\ n_pc' = IF n_result'.kind = "raise" THEN "raised" ELSE "returned"
    /\ UNCHANGED <<composer_vars, now, fresh_vars, n_entries, n_i, n_acc>>

NextNews ==
    \/ NewsEmpty
    \/ NewsEnter
    \/ NewsLoop
    \/ NewsReturn

SpecNews == InitNews /\ [][NextNews]_vars

---------------------------------------------------------------------------
(* Properties of create_trading_prompt (specification Spec).               *)

Indices(kinds) == {i \in 1..Len(prompt_lines) : prompt_lines[i].kind \in kinds}

PreambleKinds ==
    {"elapsed", "time", "intro", "disclaimer", "timeframe", "rule", "title", "refresh"}
MarketKinds ==
    {"header", "indicators", "intraday", "long_term", "separator",
     "news_header", "news_summary", "news_key", "news_item"}
AccountKinds == {"account_title", "account", "no_positions", "position"}

\* C1: create_trading_prompt never aborts with an exception on partial or
\* malformed market snapshots and news entries, and what it returns has the
\* preamble, the account block and the closing instruction.
C1_AlwaysCompleteDocument ==
    /\ pc /= "raised"
    /\ pc = "done" =>
          /\ Indices({"elapsed"}) /= {}
          /\ Indices({"account_title"}) /= {}
          /\ Indices({"closing"}) /= {}

\* C2: in the returned document the first lines are the elapsed minutes and
\* the current instant with the invocation count, the ordering disclaimer
\* follows, every market-block line lies after the disclaimer and before
\* the account block, the account block occurs once and is contiguous, and
\* the closing instruction is the last line and only there.
C2_FixedOrder ==
    pc = "done" =>
        LET n == Len(prompt_lines)
            first_account == CHOOSE a \in Indices({"account_title"}) : TRUE
        IN  /\ prompt_lines[1] =
                 Line("elapsed", "",
                      "It has been " \o ToString((now - state.start_time) \div 60)
                      \o " minutes since you started trading. ")
            /\ prompt_lines[2] =
                 Line("time", "",
                      "The current time is <dt " \o ToString(now)
                      \o ">+00:00 and you've been invoked "
                      \o ToString(state.invocation_count) \o " times. ")
            /\ Cardinality(Indices({"disclaimer"})) = 1
            /\ \A d \in Indices({"disclaimer"}) :
                  /\ d > 2
                  /\ \A m \in Indices(MarketKinds) : d < m
            /\ Cardinality(Indices({"account_title"})) = 1
            /\ Indices(AccountKinds) = first_account .. (n - 1)
            /\ \A m \in Indices(MarketKinds) : m < first_account
            /\ \A q \in Indices(PreambleKinds) : q < first_account
            /\ \A q \in Indices(PreambleKinds), m \in Indices(MarketKinds) : q < m
            /\ Indices({"closing"}) = {n}

\* Witness of C2: a returned document with two symbol blocks, news lines and
\* a position line.
C2_Witness ==
    /\ pc = "done"
    /\ Cardinality(Indices({"header"})) >= 2
    /\ Indices({"news_item"}) /= {}
    /\ Indices({"position"}) /= {}

RECURSIVE HeaderCoins(_)
\* The coins of the symbol-block header lines, in document order.
HeaderCoins(lines) ==
    IF lines = <<>> THEN <<>>
    ELSE (IF Head(lines).kind = "header" THEN <<Head(lines).coin>> ELSE <<>>)
         \o HeaderCoins(Tail(lines))

\* The symbol has a snapshot: market_snapshots holds a non-empty dict for it.
C3_HasSnapshot(coin) ==
    market_snapshots[coin].tag = "dict" /\ market_snapshots[coin] /= EmptySnapshot

RECURSIVE C3_ExpectedCoins(_)
\* The coins with a snapshot, in the order of config.SYMBOLS from index i.
C3_ExpectedCoins(i) ==
    IF i > Len(SYMBOLS) THEN <<>>
    ELSE (IF C3_HasSnapshot(SYMBOL_TO_COIN(SYMBOLS[i]))
          THEN <<SYMBOL_TO_COIN(SYMBOLS[i])>> ELSE <<>>)
         \o C3_ExpectedCoins(i + 1)

\* C3: in the returned document a symbol without snapshot has no line at
\* all, and the symbols with a snapshot have one block each, in the order
\* of the configured symbol list.
C3_SkippedAndOrdered ==
    pc = "done" =>
        /\ HeaderCoins(prompt_lines) = C3_ExpectedCoins(1)
        /\ \A m \in Indices(MarketKinds) : C3_HasSnapshot(prompt_lines[m].coin)

\* Witness of C3: a returned document with exactly two symbol blocks, the
\* first configured symbol having no snapshot.
C3_Witness ==
    /\ pc = "done"
    /\ ~C3_HasSnapshot(SYMBOL_TO_COIN(SYMBOLS[1]))
    /\ Len(HeaderCoins(prompt_lines)) = 2

\* A live price is available: the snapshot of the position's coin has a
\* number under "price".
C4_LivePrice(pos) ==
    /\ market_snapshots[pos.coin].tag = "dict"
    /\ market_snapshots[pos.coin].price.tag = "num"

C4_Current(pos) ==
    IF C4_LivePrice(pos) THEN market_snapshots[pos.coin].price.n ELSE pos.entry_price

C4_Pnl(pos) ==
    IF pos.side = "long" THEN (C4_Current(pos) - pos.entry_price) * pos.quantity
    ELSE (pos.entry_price - C4_Current(pos)) * pos.quantity

\* C4: rendering the positions never fails, and every position rendered so
\* far has its line with current = the live price if there is one and the
\* entry price otherwise, PnL = (current - entry) * quantity for long and
\* (entry - current) * quantity otherwise (0 without live price), and
\* notional = quantity * current.
C4_PnlAlwaysDefined ==
    /\ ~(pc = "raised" /\ pos_i >= 1)
    /\ pc \in {"positions", "closing", "done"} =>
          \A k \in 1..Len(state.positions) :
              LET pos == state.positions[k]
                  at == Indices({"position"})
              IN  k < pos_i \/ pc /= "positions" =>
                      /\ Cardinality(at) >= k
                      /\ \E i \in at :
                            /\ Cardinality({j \in at : j <= i}) = k
                            /\ prompt_lines[i] = PositionLine(pos, C4_Current(pos))
                      /\ UnrealizedPnl(pos, C4_Current(pos)) = C4_Pnl(pos)
                      /\ ~C4_LivePrice(pos) => C4_Pnl(pos) = 0

\* C10 as stated: a second invocation with the same state, snapshots, news
\* entries and configuration returns the same document as the first.
C10_SameArgumentsSameDocument ==
    (pc = "done" /\ run >= 2) => prompt_lines = prev_doc

\* C10 amended: a second invocation with the same state, snapshots, news
\* cache and configuration that also reads the same instant from the clock
\* returns the same document as the first.
C10_SameClockSameDocument ==
    (pc = "done" /\ run >= 2 /\ now = prev_now) => prompt_lines = prev_doc

\* Witness of C10: a second invocation returned, having read the same
\* instant as the first, with headlines that carry a freshness phrase.
C10_Witness ==
    /\ pc = "done"
    /\ run >= 2
    /\ now = prev_now
    /\ clock > now
    /\ Indices({"news_key"}) /= {}
    /\ Indices({"news_item"}) /= {}

---------------------------------------------------------------------------
(* Properties of describe_freshness (specification SpecFresh).             *)

\* The timestamp of the entry: published_at, or date when published_at is
\* missing, None or empty.
C5_Timestamp ==
    IF f_entry.published_at.tag \in {"str", "num"} /\ Truthy(f_entry.published_at)
    THEN f_entry.published_at
    ELSE Get(f_entry.date)

C5_Parsed == FromIsoFormat(ReplaceZ(Strip(PyStr(C5_Timestamp).s)))

\* The timestamp parses: fromisoformat accepts it.
C5_Parses == Truthy(C5_Timestamp) /\ C5_Parsed.ok

\* d: the seconds from the publication to now, 0 for one in the future.
C5_Delta ==
    IF now - ToUtc(C5_Parsed).instant < 0 THEN 0 ELSE now - ToUtc(C5_Parsed).instant

C5_Phrase(k, unit) == ToString(k) \o " " \o unit \o (IF k = 1 THEN "" ELSE "s") \o " ago"

C5_Expected(d) ==
    CASE d < 60 -> "just now"
      [] d >= 60 /\ d \div 60 < 60 -> C5_Phrase(d \div 60, "minute")
      [] d \div 60 >= 60 /\ d \div 3600 < 24 -> C5_Phrase(d \div 3600, "hour")
      [] d \div 3600 >= 24 /\ d \div 86400 < 7 -> C5_Phrase(d \div 86400, "day")
      [] d \div 86400 >= 7 /\ (d \div 86400) \div 7 < 5 ->
            C5_Phrase((d \div 86400) \div 7, "week")
      [] (d \div 86400) \div 7 >= 5 /\ (d \div 86400) \div 30 < 12 ->
            C5_Phrase((d \div 86400) \div 30, "month")
      [] OTHER -> C5_Phrase((d \div 86400) \div 365, "year")

C5_Examples ==
    { <<30, "just now">>, <<90, "1 minute ago">>, <<3600, "1 hour ago">>,
      <<90000, "1 day ago">>, <<8 * 86400, "1 week ago">>,
      <<40 * 86400, "1 month ago">>, <<400 * 86400, "1 year ago">> }

\* C5: for every entry whose timestamp parses, describe_freshness returns
\* the phrase of the bucket of d (minutes = d div 60 below 60, hours below
\* 24, days below 7, weeks = days div 7 below 5, months = days div 30 below
\* 12, years = days div 365), plural exactly when the count is not 1; the
\* seven deltas of the specification give the seven phrases it lists.
C5_Buckets ==
    (f_pc = "returned" /\ C5_Parses) =>
        /\ f_result.tag = "str"
        /\ Text(f_result.s) = C5_Expected(C5_Delta)
        /\ \A ex \in C5_Examples : C5_Delta = ex[1] => Text(f_result.s) = ex[2]

\* published_at and date are both missing or None.
C9_NoTimestamp ==
    f_entry.published_at.tag \in {"absent", "none"} /\ f_entry.date.tag \in {"absent", "none"}

\* C9: describe_freshness never raises; without published_at and date it
\* returns raw_date as it is; for a timestamp that does not parse it returns
\* raw_date if there is one and the timestamp itself, unmodified, otherwise.
C9_NeverRaisesAndFallsBack ==
    f_pc = "returned" =>
        /\ f_result.tag /= "raise"
        /\ C9_NoTimestamp => f_result = Get(f_entry.raw_date)
        /\ (f_entry.published_at.tag = "str" /\ Truthy(f_entry.published_at)
            /\ ~C5_Parsed.ok) =>
              f_result = IF f_entry.raw_date.tag = "str" /\ Truthy(f_entry.raw_date)
                         THEN f_entry.raw_date
                         ELSE f_entry.published_at

---------------------------------------------------------------------------
(* Properties of summarize_news_sentiment (specification SpecNews).        *)

\* The entry's label, lower-cased, "" when it has none.
C6_Label(entry) ==
    IF entry.sentiment.tag = "str" THEN Text(Lower(entry.sentiment.s)) ELSE ""

C6_Recognized == {i \in 1..Len(n_entries) : C6_Label(n_entries[i]) \in RecognizedLabels}

C6_Weight(label) == IF label = "positive" THEN 1 ELSE IF label = "negative" THEN -1 ELSE 0

\* The contribution of a recognized entry, in hundredths.
C6_Contribution(entry) ==
    IF entry.sentiment_confidence.tag = "num"
    THEN C6_Weight(C6_Label(entry)) * entry.sentiment_confidence.n
    ELSE C6_Weight(C6_Label(entry)) * 100

RECURSIVE C6_Total(_)
C6_Total(S) ==
    IF S = {} THEN 0
    ELSE LET i == CHOOSE j \in S : TRUE
         IN  C6_Contribution(n_entries[i]) + C6_Total(S \ {i})

\* C6: the net score is the mean of one contribution per entry with a
\* recognized label (weight * confidence, the weight alone without numeric
\* confidence); other entries contribute nothing; it is 0 when no entry has
\* a recognized label.
C6_NetScoreIsMean ==
    (n_pc \in {"returned", "raised"} /\ n_entries /= <<>>) =>
        /\ n_net_score.den > 0
        /\ IF C6_Recognized = {} THEN n_net_score.num = 0
           ELSE n_net_score.num * Cardinality(C6_Recognized)
                    = C6_Total(C6_Recognized) * n_net_score.den

\* Witness of C6: a list of three with an unknown entry, a recognized entry
\* without numeric confidence and one with, has been summarized.
C6_Witness ==
    /\ n_pc = "returned"
    /\ Len(n_entries) = 3
    /\ Cardinality(C6_Recognized) = 2
    /\ \E i \in C6_Recognized :
          /\ n_entries[i].sentiment_confidence.tag /= "num"
          /\ C6_Label(n_entries[i]) /= "neutral"
    /\ \E i \in C6_Recognized : n_entries[i].sentiment_confidence.tag = "num"
    /\ n_net_score.num /= 0

C7_Count(label) == Cardinality({i \in 1..Len(n_entries) : C6_Label(n_entries[i]) = label})

C7_Bias ==
    IF n_net_score.num >= 20 * n_net_score.den THEN "Bullish tilt"
    ELSE IF n_net_score.num <= -20 * n_net_score.den THEN "Bearish tilt"
    ELSE "Mixed/neutral bias"

C8_NoTimestamps ==
    \A i \in 1..Len(n_entries) : ~Truthy(TimestampOf(n_entries[i]))

\* C8: for a non-empty list the returned key entry is not None and is an
\* entry of the list; it is the first entry when every entry is of unknown
\* sentiment and none has a timestamp.
C8_KeyEntryNeverNone ==
    (n_pc = "returned" /\ n_entries /= <<>>) =>
        /\ n_result.key_entry \in 1..Len(n_entries)
        /\ (C6_Recognized = {} /\ C8_NoTimestamps) => n_result.key_entry = 1

---------------------------------------------------------------------------
(* Further properties of create_trading_prompt (specification Spec).       *)

RECURSIVE C11_PositionCoins(_)
\* The coins of the position lines, in document order.
C11_PositionCoins(lines) ==
    IF lines = <<>> THEN <<>>
    ELSE (IF Head(lines).kind = "position" THEN <<Head(lines).coin>> ELSE <<>>)
         \o C11_PositionCoins(Tail(lines))

\* C11: the returned document has the "No open positions yet." line exactly
\* when state["positions"] is empty, and then once and no position line;
\* otherwise it has one position line per position, in the order of the
\* mapping, each the line of that position, all inside the account block.
C11_NoPositionsIffEmpty ==
    pc = "done" =>
        /\ (Indices({"no_positions"}) /= {}) <=> (Len(state.positions) = 0)
        /\ Cardinality(Indices({"no_positions"})) <= 1
        /\ \A i \in Indices({"no_positions"}) :
              prompt_lines[i].text = "No open positions yet."
        /\ C11_PositionCoins(prompt_lines)
              = [k \in 1..Len(state.positions) |-> state.positions[k].coin]
        /\ \A i \in Indices({"no_positions", "position"}), a \in Indices({"account_title"}) :
              a < i

\* Witness of C11: a document returned for two positions whose order in the
\* mapping is not the order of the configured symbols.
C11_Witness ==
    /\ pc = "done"
    /\ C11_PositionCoins(prompt_lines) = <<"BBCA", "TLKM">>
    /\ Indices({"no_positions"}) = {}

\* Second witness of C11: a document returned for no position.
C11_WitnessEmpty ==
    /\ pc = "done"
    /\ Len(state.positions) = 0
    /\ Cardinality(Indices({"no_positions"})) = 1

\* The lines of the given kinds that are about the coin, in document order.
C13_LinesOf(coin, kinds) ==
    LET Test(l) == l.coin = coin /\ l.kind \in kinds
    IN  SelectSeq(prompt_lines, Test)

\* The remaining headline lines of a news list whose key entry is entry k:
\* one line per other entry, in list order.
C13_Remaining(coin, entries, k) ==
    LET rest == SelectSeq([j \in 1..Len(entries) |-> j], LAMBDA j : j /= k)
    IN  [m \in 1..Len(rest) |-> NewsItemLine(coin, entries[rest[m]], now)]

\* C13: in the returned document a rendered symbol without news entries
\* has no news line; one with n >= 1 entries has the line of the sentiment
\* summary, then the key headline line of one entry k, then the remaining
\* headline lines of the n - 1 other entries in list order - an entry equal
\* to the key entry at another position included.
C13_EveryEntryOnce ==
    pc = "done" =>
        \A coin \in Coins :
            C13_LinesOf(coin, {"header"}) /= <<>> =>
                LET entries == cache.news[coin]
                    body == C13_LinesOf(coin, {"news_summary", "news_key", "news_item"})
                IN  IF entries = <<>>
                    THEN C13_LinesOf(coin, MarketKinds)
                            = C13_LinesOf(coin, MarketKinds \ {"news_header", "news_summary",
                                                              "news_key", "news_item"})
                    ELSE \E k \in 1..Len(entries) :
                            /\ Len(body) = Len(entries) + 1
                            /\ body[1].kind = "news_summary"
                            /\ body[2] = Line("news_key", coin,
                                              "    - " \o KeyLine(entries, k, now).text)
                            /\ SubSeq(body, 3, Len(body)) = C13_Remaining(coin, entries, k)

NewsKinds == {"news_header", "news_summary", "news_key", "news_item"}

\* The place of a kind of line in the order of a symbol block; the
\* separator has none.
C14_Rank(kind) ==
    CASE kind = "header" -> 1
      [] kind = "indicators" -> 2
      [] kind = "intraday" -> 3
      [] kind = "long_term" -> 4
      [] kind \in NewsKinds -> 5
      [] OTHER -> 0

\* The lines of the coin's block other than separators are the header with
\* the symbol name, the indicator summary, the intraday block, the long-term
\* block and then the news lines, and there are news lines exactly when the
\* symbol has news.
C14_PartsInOrder(coin) ==
    LET parts == C13_LinesOf(coin, MarketKinds \ {"separator"})
    IN  /\ Len(parts) >= 4
        /\ parts[1] = Line("header", coin, coin \o " STOCK SNAPSHOT")
        /\ parts[2].kind = "indicators"
        /\ \A i \in 1..(Len(parts) - 1) :
              C14_Rank(parts[i].kind) <= C14_Rank(parts[i + 1].kind)
        /\ \A r \in 1..4 : \E i \in 1..Len(parts) : C14_Rank(parts[i].kind) = r
        /\ Cardinality({i \in 1..Len(parts) : parts[i].kind = "indicators"}) = 1
        /\ (\E i \in 1..Len(parts) : parts[i].kind \in NewsKinds)
              <=> (cache.news[coin] /= <<>>)

\* The block of the coin is one run of consecutive lines of the document.
C14_Contiguous(coin) ==
    \A i, j \in 1..Len(prompt_lines) :
        (i < j /\ prompt_lines[i].coin = coin /\ prompt_lines[j].coin = coin
         /\ prompt_lines[i].kind \in MarketKinds /\ prompt_lines[j].kind \in MarketKinds) =>
            \A m \in i..j : prompt_lines[m].coin = coin /\ prompt_lines[m].kind \in MarketKinds

\* The positions of the separator lines in a block.
C14_Separators(block) == {i \in 1..Len(block) : block[i].kind = "separator"}

\* C14 as stated: every rendered symbol block is header, indicator summary,
\* intraday block, long-term block, news lines when there is news, and one
\* separator line, which is its last line and its only separator.
C14_OneSeparator ==
    pc = "done" =>
        \A coin \in Coins :
            C13_LinesOf(coin, {"header"}) /= <<>> =>
                LET block == C13_LinesOf(coin, MarketKinds)
                IN  /\ C14_PartsInOrder(coin)
                    /\ C14_Contiguous(coin)
                    /\ C14_Separators(block) = {Len(block)}

\* C14 amended: every rendered symbol block is header, indicator summary,
\* intraday block, long-term block, a separator line, news lines when there
\* is news, and a closing separator line, which is its last line; it has
\* exactly these two separator lines.
C14_TwoSeparators ==
    pc = "done" =>
        \A coin \in Coins :
            C13_LinesOf(coin, {"header"}) /= <<>> =>
                LET block == C13_LinesOf(coin, MarketKinds)
                IN  /\ C14_PartsInOrder(coin)
                    /\ C14_Contiguous(coin)
                    /\ Cardinality(C14_Separators(block)) = 2
                    /\ Len(block) \in C14_Separators(block)
                    /\ \E s \in C14_Separators(block) :
                          /\ s > 1
                          /\ block[s - 1].kind = "long_term"
                          /\ \A i \in 1..(s - 1) : C14_Rank(block[i].kind) \in 1..4
                          /\ \A i \in (s + 1)..(Len(block) - 1) :
                                block[i].kind \in NewsKinds
                    /\ \A s \in C14_Separators(block) : block[s].text = Separator

\* Witness of C14: a returned document with a symbol block that has news
\* lines and a symbol block that has none.
C14_Witness ==
    /\ pc = "done"
    /\ \E c1, c2 \in Coins :
          /\ C13_LinesOf(c1, {"header"}) /= <<>>
          /\ C13_LinesOf(c1, NewsKinds) /= <<>>
          /\ C13_LinesOf(c2, {"header"}) /= <<>>
          /\ C13_LinesOf(c2, NewsKinds) = <<>>

---------------------------------------------------------------------------
(* Further properties of summarize_news_sentiment (specification SpecNews). *)

\* The timestamp string of entry i: published_at if non-empty, else date,
\* else the empty string.
C12_Ts(i) == TimestampOf(n_entries[i]).s

\* i is the earliest of the first k entries whose timestamp string is the
\* lexicographic maximum among them.
C12_EarliestMaximum(i, k) ==
    /\ i \in 1..k
    /\ \A j \in 1..k : ~StrGreater(C12_Ts(j), C12_Ts(i))
    /\ \A j \in 1..(i - 1) : StrGreater(C12_Ts(i), C12_Ts(j))

\* C12: after each iteration of the loop the candidate is the earliest of
\* the entries seen so far with the greatest timestamp string (the first
\* entry seeds it, a later entry replaces it exactly when its timestamp
\* string is strictly greater), and that entry is the key entry returned.
C12_KeyIsEarliestMaximum ==
    /\ (n_pc \in {"loop", "returned", "raised"} /\ n_i >= 2) =>
          C12_EarliestMaximum(n_acc.key_entry, n_i - 1)
    /\ (n_pc = "returned" /\ n_entries /= <<>>) =>
          C12_EarliestMaximum(n_result.key_entry, Len(n_entries))

\* The timestamp of entry i as datetime.fromisoformat reads it.
C15_Parsed(i) == FromIsoFormat(ReplaceZ(C12_Ts(i)))

\* Every entry carries a valid ISO-8601 timestamp.
C15_AllValid == \A i \in 1..Len(n_entries) : C15_Parsed(i).ok

\* The instant that the timestamp of entry i denotes.
C15_Instant(i) == C15_Parsed(i).wall - C15_Parsed(i).offset

\* The spelling of the UTC offset of entry i: what follows the date-time.
C15_OffsetSpelling(i) == Tail(C12_Ts(i))

---------------------------------------------------------------------------
(* Further properties of describe_freshness (specification SpecFresh).     *)

C16_Units == {"minute", "hour", "day", "week", "month", "year"}

\* The pairs of a unit and a count of at least 1 whose phrase is the text.
C16_Readings(text) ==
    {p \in C16_Units \X (1..59) : text = C5_Phrase(p[2], p[1])}

\* C16: for a timestamp that parses, a phrase that describe_freshness
\* returns is "just now" or "N <unit>(s) ago" of exactly one unit with a
\* count N of at least 1; a count of 0 is never written.
C16_CountAtLeastOne ==
    (f_pc = "returned" /\ C5_Parses /\ f_result.tag = "str") =>
        \/ Text(f_result.s) = "just now" /\ C5_Delta < 60
        \/ C5_Delta >= 60 /\ Cardinality(C16_Readings(Text(f_result.s))) = 1

====
